---- MODULE Spec2Model ----
(***************************************************************************)
(* chainlink-ea-manager: the adapter lifecycle orchestrator (EAManager in  *)
(* core/manager.py) driving a Docker daemon, with the operation journal    *)
(* (EALogger in utils/logger.py) and the static adapter configuration      *)
(* (ConfigManager in config/config_manager.py).                            *)
(*                                                                         *)
(* One invocation of a public operation is a sequence of steps, one per    *)
(* call the handler makes to the container runtime; every runtime call may *)
(* fail (the docker SDK raises), which is a nondeterministic choice taken  *)
(* at the step.  The Docker daemon's state (networks, containers) and the  *)
(* journal file are shared by all invocations.                             *)
(***************************************************************************)
EXTENDS Naturals, Integers, Sequences, FiniteSets, TLC

\* ------------------------------------------------------------------ bounds
\* number of invocations of public operations in one behaviour
MaxOps == 2

\* ------------------------------------------------------- program constants
None == "None"
NetworkName == "eas-net"
RedisName == "redis-cache"
RedisIP == "192.168.1.1"
TagPreview == 10

\* self.adapter_configs: the discovered static-config set.  Every entry has
\* all four keys (a key whose pattern did not match holds None).
adapter_configs ==
  [ coin    |-> [ip |-> "192.168.1.113", port |-> "1113",
                 api_key_var |-> "COIN_API_KEY", sub_tier_var |-> None],
    bitcoin |-> [ip |-> "192.168.1.114", port |-> "1114",
                 api_key_var |-> None, sub_tier_var |-> None],
    coingecko |-> [ip |-> "192.168.1.113", port |-> "1113",
                   api_key_var |-> "COINGECKO_API_KEY",
                   sub_tier_var |-> "COINGECKO_SUB_HTTP"],
    \* a script without --ip and without -p
    noaddr  |-> [ip |-> None, port |-> None,
                 api_key_var |-> None, sub_tier_var |-> None],
    \* a script whose --ip is not in the subnet of 'eas-net'
    faraway |-> [ip |-> "10.0.0.5", port |-> "1115",
                 api_key_var |-> None, sub_tier_var |-> None] ]

\* ConfigManager.get_adapter_config: dict.get, None for an unknown name
NoConfig == [ip |-> None, port |-> None, api_key_var |-> None,
             sub_tier_var |-> None, missing |-> TRUE]
get_adapter_config(adapter_name) ==
  IF adapter_name \in DOMAIN adapter_configs
    THEN adapter_configs[adapter_name] ELSE NoConfig

\* the api_keys file: "export NAME=value" lines; a value may be empty
StoreValues == [COINGECKO_API_KEY |-> {"", "abc123"},
                COINGECKO_SUB_HTTP |-> {"", "pro"}]
CredentialStores ==
  UNION { {s \in [D -> {"", "abc123", "pro"}] : \A v \in D : s[v] \in StoreValues[v]}
          : D \in SUBSET DOMAIN StoreValues }

\* dict.get(key): None for a key that is not there
Lookup(d, key) == IF key \in DOMAIN d THEN d[key] ELSE None

\* dict.get(key, default): the default only for a key that is not there, a
\* key that holds None yields None
Get(d, key, default) == IF key \in DOMAIN d THEN d[key] ELSE default

\* truth value of an Optional[str]: None and '' are false
Truthy(v) == v # None /\ v # ""

\* ConfigManager.get_api_key
get_api_key(store, adapter_name) ==
  LET adapter_config == get_adapter_config(adapter_name) IN
  IF adapter_config = NoConfig THEN None
  ELSE IF ~Truthy(adapter_config.api_key_var) THEN None
  ELSE Lookup(store, adapter_config.api_key_var)

\* ConfigManager.get_subscription_tier
get_subscription_tier(store, adapter_name) ==
  LET adapter_config == get_adapter_config(adapter_name) IN
  IF adapter_config = NoConfig THEN None
  ELSE IF ~Truthy(adapter_config.sub_tier_var) THEN None
  ELSE Lookup(store, adapter_config.sub_tier_var)

\* the entries of env_vars that are the same for every adapter
fixed_env ==
  [CACHE_ENABLED |-> "true", CACHE_TYPE |-> "redis",
   CACHE_REDIS_HOST |-> "192.168.1.1", CACHE_REDIS_PORT |-> "6379",
   CACHE_REDIS_TIMEOUT |-> "10000", RATE_LIMIT_ENABLED |-> "true",
   WARMUP_ENABLED |-> "true", REQUEST_COALESCING_ENABLED |-> "true",
   REQUEST_COALESCING_INTERVAL |-> "100", REQUEST_COALESCING_INTERVAL_MAX |-> "1000",
   REQUEST_COALESCING_INTERVAL_COEFFICIENT |-> "2",
   REQUEST_COALESCING_ENTROPY_MAX |-> "0", LOG_LEVEL |-> "info", DEBUG |-> "false",
   API_VERBOSE |-> "false", EXPERIMENTAL_METRICS_ENABLED |-> "true",
   RETRY |-> "1", TIMEOUT |-> "30000"]

\* mutant: EA_PORT is the fleet default instead of the adapter's port
baseline_env_default_port(adapter_name, adapter_config) ==
  [EA_PORT |-> "1113", CACHE_KEY_GROUP |-> adapter_name,
   RATE_LIMIT_API_PROVIDER |-> adapter_name, METRICS_NAME |-> adapter_name] @@ fixed_env

\* env_vars = {...}: the dictionary literal of deploy_adapter
baseline_env(adapter_name, adapter_config) ==
  [EA_PORT |-> Get(adapter_config, "port", "1113"), CACHE_KEY_GROUP |-> adapter_name,
   RATE_LIMIT_API_PROVIDER |-> adapter_name, METRICS_NAME |-> adapter_name] @@ fixed_env

\* mutant: the credential keys are set without the `if`
env_vars_always(adapter_name, adapter_config, api_key, sub_tier) ==
  [API_KEY |-> api_key, RATE_LIMIT_API_TIER |-> sub_tier] @@
  baseline_env(adapter_name, adapter_config)

\* deploy_adapter: the environment handed to containers.run
env_vars(adapter_name, adapter_config, api_key, sub_tier) ==
  (IF Truthy(api_key) THEN [API_KEY |-> api_key] ELSE << >>) @@
  (IF Truthy(sub_tier) THEN [RATE_LIMIT_API_TIER |-> sub_tier] ELSE << >>) @@
  baseline_env(adapter_name, adapter_config)

\* adapter names a caller may pass: the two discovered adapters and "in",
\* a name that is absent from the externalAdapters directory
AdapterNames == {"coin", "bitcoin", "in"}
Tags == {"3.2.0", "3.2.1"}

\* container_name = f"{adapter_name}-redis"
ContainerName(adapter_name) == adapter_name \o "-redis"

ContainerNames == {ContainerName(a) : a \in DOMAIN adapter_configs} \cup {RedisName}

\* ------------------------------------------------------- strings and tags
\* Python's `in` on strings; the daemon's "name" filter of containers.list
\* matches every container whose name contains the filter value
Contains(s, sub) ==
  \E i \in 1..(Len(s) + 1) :
     /\ i + Len(sub) - 1 <= Len(s)
     /\ SubSeq(s, i, i + Len(sub) - 1) = sub

\* code points of the characters that occur in tags
Ord == [c \in {".", "0", "1", "2", "3", "4", "5", "6", "7", "8", "9"} |->
          CASE c = "." -> 46 [] c = "0" -> 48 [] c = "1" -> 49 [] c = "2" -> 50
            [] c = "3" -> 51 [] c = "4" -> 52 [] c = "5" -> 53 [] c = "6" -> 54
            [] c = "7" -> 55 [] c = "8" -> 56 [] c = "9" -> 57]

\* Python's str.__lt__: lexicographic by code point, a proper prefix is smaller
RECURSIVE StrLess(_, _)
StrLess(a, b) ==
  IF Len(b) = 0 THEN FALSE
  ELSE IF Len(a) = 0 THEN TRUE
  ELSE LET ca == SubSeq(a, 1, 1)
           cb == SubSeq(b, 1, 1)
       IN IF ca = cb THEN StrLess(SubSeq(a, 2, Len(a)), SubSeq(b, 2, Len(b)))
          ELSE Ord[ca] < Ord[cb]

\* mutant: sorted(xs) without reverse=True
RECURSIVE SortedAsc(_)
SortedAsc(xs) ==
  IF Len(xs) = 0 THEN << >>
  ELSE LET i == CHOOSE k \in 1..Len(xs) : \A j \in 1..Len(xs) : ~StrLess(xs[j], xs[k])
           rest == [j \in 1..(Len(xs) - 1) |-> IF j < i THEN xs[j] ELSE xs[j + 1]]
       IN <<xs[i]>> \o SortedAsc(rest)

\* sorted(xs, reverse=True): stable, so equal elements keep their order
RECURSIVE SortedDesc(_)
SortedDesc(xs) ==
  IF Len(xs) = 0 THEN << >>
  ELSE LET i == CHOOSE k \in 1..Len(xs) :
                  /\ \A j \in 1..Len(xs) : ~StrLess(xs[k], xs[j])
                  /\ \A j \in 1..(k - 1) : xs[j] # xs[k]
           rest == [j \in 1..(Len(xs) - 1) |-> IF j < i THEN xs[j] ELSE xs[j + 1]]
       IN <<xs[i]>> \o SortedDesc(rest)

\* tags[:10]
Head10(xs) == SubSeq(xs, 1, IF Len(xs) < TagPreview THEN Len(xs) ELSE TagPreview)

\* what `skopeo list-tags` can answer: a JSON object with the tags, a JSON
\* object without "Tags", a non-zero exit, output that is not JSON, JSON
\* that is not an object (a list), an object whose "Tags" is null; or the
\* skopeo executable is not installed
RegistryResponses ==
  { [kind |-> "ok", Tags |-> <<"3.2.0", "3.1.0", "3.2.1">>],
    [kind |-> "ok", Tags |-> << >>],
    [kind |-> "no_tags_key", Tags |-> << >>],
    [kind |-> "exit_nonzero", Tags |-> << >>],
    [kind |-> "bad_json", Tags |-> << >>],
    [kind |-> "not_object", Tags |-> << >>],
    [kind |-> "tags_null", Tags |-> << >>],
    [kind |-> "no_skopeo", Tags |-> << >>] }
NoResp == [kind |-> "none", Tags |-> << >>]

\* EAManager.get_available_tags: [raised |-> an exception leaves the method,
\* tags |-> the list it returns]
get_available_tags(resp) ==
  CASE resp.kind = "ok" -> [raised |-> FALSE, tags |-> Head10(SortedDesc(resp.Tags))]
    \* tags_data.get('Tags', [])
    [] resp.kind = "no_tags_key" -> [raised |-> FALSE, tags |-> << >>]
    \* except subprocess.CalledProcessError
    [] resp.kind = "exit_nonzero" -> [raised |-> FALSE, tags |-> << >>]
    \* except json.JSONDecodeError
    [] resp.kind = "bad_json" -> [raised |-> FALSE, tags |-> << >>]
    \* AttributeError: a list has no .get; no handler
    [] resp.kind = "not_object" -> [raised |-> TRUE, tags |-> << >>]
    \* TypeError: sorted(None); no handler
    [] resp.kind = "tags_null" -> [raised |-> TRUE, tags |-> << >>]
    \* FileNotFoundError from subprocess.run; no handler
    [] resp.kind = "no_skopeo" -> [raised |-> TRUE, tags |-> << >>]

\* ---------------------------------------------------------------- state
VARIABLES
  networks,    \* names of the Docker networks that exist
  redis_dir,   \* the volume directory ~/.redis exists
  containers,  \* container name -> container, or NoContainer
  journal,     \* the operation journal file: sequence of records
  opCount,     \* invocations started so far
  pc,          \* per invocation slot: position in the handler
  call,        \* per slot: operation, arguments, invocation number
  loc,         \* per slot: the handler's locals
  result,      \* per slot: what the operation returned
  trace,       \* per slot: the runtime calls the invocation has made
  pre,         \* per slot: the Docker state and journal length at its start
  prev,        \* summary of the invocation that finished before the current one
  api_keys     \* ConfigManager.api_keys: the credential store, read at start

vars == <<networks, redis_dir, containers, journal, opCount, pc, call, loc, result, trace, pre, prev, api_keys>>

NoContainer == [status |-> "absent"]
NoCall == [op |-> "none", adapter |-> None, tag |-> None, n |-> 0, params |-> << >>]
NoLoc == [tag |-> None, listed |-> FALSE, tags |-> << >>, existing |-> << >>,
          dres |-> "none", resp |-> NoResp, host |-> None, probe |-> "none",
          exit |-> -1]
NoPrev == [op |-> "none", adapter |-> None, argtag |-> None, tag |-> None, n |-> 0,
           result |-> "none", clean |-> FALSE, netAtStart |-> FALSE]

\* invocation slots: each is one process of the tool.  The tool run by one
\* operator, one command after the other, uses the first only
Procs == {1, 2}
Tool == {1}

Exists(name) == name \in DOMAIN containers /\ containers[name] # NoContainer

\* containers.list(all=True, filters={"name": f}): newest first
RECURSIVE NewestFirst(_)
NewestFirst(S) ==
  IF S = {} THEN << >>
  ELSE LET n == CHOOSE x \in S : \A y \in S : containers[y].id <= containers[x].id
       IN <<n>> \o NewestFirst(S \ {n})

\* mutant: the listing without all=True sees running containers only
ListContainersRunning(f) ==
  NewestFirst({n \in ContainerNames :
                 Exists(n) /\ Contains(n, f) /\ containers[n].status = "running"})

ListContainers(f) == NewestFirst({n \in ContainerNames : Exists(n) /\ Contains(n, f)})

\* networks.list(names=[f]): the daemon matches part of the name
\* mutant: the network check that always finds the network
ListNetworksAny(f) == {NetworkName}

ListNetworks(f) == {n \in networks : Contains(n, f)}

Event(act, target, ok) == [act |-> act, target |-> target, ok |-> ok]

\* EALogger.log_operation
log_operation(operation, adapter, success, details) ==
  [operation |-> operation,
   status |-> IF success THEN "SUCCESS" ELSE "FAILURE",
   adapter |-> adapter,
   details |-> details,
   level |-> IF success THEN "INFO" ELSE "ERROR"]

\* EALogger.log_initialize
log_initialize(success, details) ==
  log_operation("INITIALIZE", None, success, [tag |-> None, error |-> details])

\* EALogger.log_deploy: details are "Tag: {tag}" and, if given, the error text
log_deploy(adapter, tag, success, details) ==
  log_operation("DEPLOY", adapter, success, [tag |-> tag, error |-> details])

\* EALogger.log_upgrade
log_upgrade(adapter, tag, success, details) ==
  log_operation("UPGRADE", adapter, success, [tag |-> tag, error |-> details])

\* EALogger.log_test: details are "FROM: .., TO: .." and, if given, the result
log_test(container, from_param, to_param, success, res) ==
  log_operation("TEST", container, success,
                [from |-> from_param, to |-> to_param,
                 result |-> IF Truthy(res) THEN res ELSE None])

\* the states the Docker daemon can be in when the tool is started: nothing
\* yet, or what a successful initialize_environment leaves
InitialDocker ==
  { [networks |-> {}, redis_dir |-> FALSE,
     containers |-> [n \in ContainerNames |-> NoContainer]],
    [networks |-> {NetworkName}, redis_dir |-> TRUE,
     containers |-> [n \in ContainerNames |->
        IF n = RedisName
          THEN [status |-> "running", id |-> 0, tag |-> "redis",
                ip |-> RedisIP, port |-> "6379", env |-> << >>]
          ELSE NoContainer]] }

\* the credential file of the deployment the operations are run on
DefaultStore == [COINGECKO_API_KEY |-> "abc123"]

\* a freshly constructed EAManager on a daemon in state d, with the
\* credential file read
Constructed(dockers, stores) ==
  /\ \E d \in dockers :
       networks = d.networks /\ redis_dir = d.redis_dir /\ containers = d.containers
  /\ api_keys \in stores
  /\ journal = << >>
  /\ opCount = 0
  /\ pc = [p \in Procs |-> "idle"]
  /\ call = [p \in Procs |-> NoCall]
  /\ loc = [p \in Procs |-> NoLoc]
  /\ result = [p \in Procs |-> "none"]
  /\ trace = [p \in Procs |-> << >>]
  /\ pre = [p \in Procs |-> [networks |-> networks, containers |-> containers,
                            journal |-> 0]]
  /\ prev = NoPrev

Init == Constructed(InitialDocker, {DefaultStore})

\* ------------------------------------------------------- control helpers
Ctl(p, newpc, res, newloc, newjournal) ==
  /\ pc' = [pc EXCEPT ![p] = newpc]
  /\ result' = [result EXCEPT ![p] = res]
  /\ loc' = [loc EXCEPT ![p] = newloc]
  /\ journal' = newjournal

Goto(p, newpc) == Ctl(p, newpc, result[p], loc[p], journal)

Log(p, ev) == trace' = [trace EXCEPT ![p] = Append(@, ev)]

\* what is remembered of an invocation once the next one starts
Summary(p) ==
  [op |-> call[p].op, adapter |-> call[p].adapter, argtag |-> call[p].tag,
   tag |-> loc[p].tag,
   n |-> call[p].n, result |-> result[p],
   clean |-> \A i \in 1..Len(trace[p]) : trace[p][i].ok,
   netAtStart |-> NetworkName \in pre[p].networks]

\* a caller invokes a public operation of EAManager
BeginWith(p, op, adapter, tag, first, params) ==
  /\ pc[p] \in {"idle", "done"}
  /\ opCount < MaxOps
  /\ opCount' = opCount + 1
  /\ call' = [call EXCEPT ![p] = [op |-> op, adapter |-> adapter, tag |-> tag,
                                  n |-> opCount + 1, params |-> params]]
  /\ loc' = [loc EXCEPT ![p] = [NoLoc EXCEPT !.tag = tag]]
  /\ pc' = [pc EXCEPT ![p] = first]
  /\ result' = [result EXCEPT ![p] = "none"]
  /\ trace' = [trace EXCEPT ![p] = << >>]
  /\ pre' = [pre EXCEPT ![p] = [networks |-> networks, containers |-> containers,
                                journal |-> Len(journal)]]
  /\ prev' = IF pc[p] = "done" THEN Summary(p) ELSE prev
  /\ UNCHANGED <<networks, redis_dir, containers, journal, api_keys>>

Begin(p, op, adapter, tag, first) == BeginWith(p, op, adapter, tag, first, << >>)

\* docker-py containers.run(detach=True) creates the container and then
\* starts it: it can succeed, fail before anything is created, or fail in
\* the start and leave the created container behind.  A name that is taken
\* is refused by the daemon.
RunOutcomes == {"ok", "error", "start_error"}
RunOutcome(name, out) == IF Exists(name) THEN "error" ELSE out

\* mutant: the image reference built without the requested tag
NewContainerLatest(status, n, tag, port, env) ==
  [status |-> status, id |-> n, tag |-> "latest", ip |-> "none", port |-> port,
   env |-> env]

NewContainer(status, n, tag, port, env) ==
  [status |-> status, id |-> n, tag |-> tag, ip |-> "none", port |-> port,
   env |-> env]

\* the attachment after a launch: containers.get, networks.get and
\* network.connect(container, ipv4_address=ip) in one try block
\* an address of the network's subnet 192.168.0.0/16
InSubnet(ip) == Len(ip) >= 8 /\ SubSeq(ip, 1, 8) = "192.168."

\* the address is the address of another container that is running
AddressInUse(name, ip) ==
  \E n \in ContainerNames \ {name} :
    Exists(n) /\ containers[n].status = "running" /\ containers[n].ip = ip

\* the daemon refuses an address that is not in the network's subnet and an
\* address that is in use
ConnectOutcomes == {"ok", "get_error", "connect_error"}
ConnectOutcome(name, ip, out) ==
  IF ~Exists(name) \/ NetworkName \notin networks THEN "get_error"
  ELSE IF out = "ok" /\ ip # None /\ (~InSubnet(ip) \/ AddressInUse(name, ip))
    THEN "connect_error"
  ELSE out

\* mutant: network.connect(container) without ipv4_address
AttachedAnywhere(c, ip) == [c EXCEPT !.ip = "dynamic"]

\* network.connect with ipv4_address=None asks for no specific address
Attached(c, ip) == [c EXCEPT !.ip = IF ip = None THEN "dynamic" ELSE ip]

ConnectStatic(p, name, ip, after, fallback) ==
  \E out \in ConnectOutcomes :
    LET o == ConnectOutcome(name, ip, out) IN
    /\ CASE o = "ok" ->
              /\ containers' = [containers EXCEPT ![name] = Attached(@, ip)]
              /\ Log(p, Event("connect_static", name, TRUE))
              /\ Goto(p, after)
         [] o = "connect_error" ->
              \* except: warning, then the attachment without an address
              /\ Log(p, Event("connect_static", name, FALSE))
              /\ Goto(p, fallback)
              /\ UNCHANGED containers
         [] o = "get_error" ->
              \* except: `network` (or `container`) is unbound, the second
              \* try raises before it calls the daemon and is swallowed
              /\ Log(p, Event("get", name, FALSE))
              /\ Goto(p, after)
              /\ UNCHANGED containers
    /\ UNCHANGED <<networks, redis_dir, opCount, call, pre, prev, api_keys>>

\* mutant: a failure of the second attachment ends the operation as failed
ConnectDynamicFatal(p, name, after) ==
  \E ok \in BOOLEAN :
    LET done == ok /\ Exists(name) /\ NetworkName \in networks IN
    /\ containers' = IF done THEN [containers EXCEPT ![name].ip = "dynamic"]
                     ELSE containers
    /\ Log(p, Event("connect", name, done))
    /\ IF done THEN Goto(p, after) ELSE Ctl(p, "done", "False", loc[p], journal)
    /\ UNCHANGED <<networks, redis_dir, opCount, call, pre, prev, api_keys>>

\* network.connect(container) in the inner try: any failure is only logged
ConnectDynamic(p, name, after) ==
  \E ok \in BOOLEAN :
    LET done == ok /\ Exists(name) /\ NetworkName \in networks IN
    /\ containers' = IF done THEN [containers EXCEPT ![name].ip = "dynamic"]
                     ELSE containers
    /\ Log(p, Event("connect", name, done))
    /\ Goto(p, after)
    /\ UNCHANGED <<networks, redis_dir, opCount, call, pre, prev, api_keys>>

\* ------------------------------------------------- initialize_environment
StartInitialize(p) == Begin(p, "INITIALIZE", None, None, "i_docker")

\* except Exception: log_initialize(False, error_msg); return False
InitExcept(p, what) ==
  Ctl(p, "done", "False", loc[p], Append(journal, log_initialize(FALSE, what)))

\* ensure_docker_running(): a False return leaves at once, nothing journaled
i_docker(p) ==
  /\ pc[p] = "i_docker"
  /\ \E up \in BOOLEAN :
       /\ Log(p, Event("ensure_docker_running", None, up))
       /\ IF up THEN Goto(p, "i_netlist")
                ELSE Ctl(p, "done", "False", loc[p], journal)
  /\ UNCHANGED <<networks, redis_dir, containers, opCount, call, pre, prev, api_keys>>

\* networks.list(names=['eas-net'])
i_netlist(p) ==
  /\ pc[p] = "i_netlist"
  /\ \E ok \in BOOLEAN :
       /\ Log(p, Event("networks.list", NetworkName, ok))
       /\ IF ok
            THEN Goto(p, IF ListNetworks(NetworkName) = {} THEN "i_netcreate"
                                                           ELSE "i_mkdir")
            ELSE InitExcept(p, "networks.list")
  /\ UNCHANGED <<networks, redis_dir, containers, opCount, call, pre, prev, api_keys>>

\* networks.create(name='eas-net', ...): the daemon refuses a second network
\* of that name and subnet
i_netcreate(p) ==
  /\ pc[p] = "i_netcreate"
  /\ \E ok \in BOOLEAN :
       LET done == ok /\ NetworkName \notin networks IN
       /\ Log(p, Event("networks.create", NetworkName, done))
       /\ IF done
            THEN /\ networks' = networks \cup {NetworkName}
                 /\ Goto(p, "i_mkdir")
            ELSE /\ InitExcept(p, "networks.create")
                 /\ UNCHANGED networks
  /\ UNCHANGED <<redis_dir, containers, opCount, call, pre, prev, api_keys>>

\* if not os.path.exists(redis_dir): os.makedirs(redis_dir)
i_mkdir(p) ==
  /\ pc[p] = "i_mkdir"
  /\ IF redis_dir
       THEN Goto(p, "i_clist") /\ UNCHANGED <<redis_dir, trace>>
       ELSE \E ok \in BOOLEAN :
              /\ Log(p, Event("makedirs", "~/.redis", ok))
              /\ redis_dir' = ok
              /\ IF ok THEN Goto(p, "i_clist") ELSE InitExcept(p, "makedirs")
  /\ UNCHANGED <<networks, containers, opCount, call, pre, prev, api_keys>>

\* containers.list(all=True, filters={"name": "redis-cache"})
i_clist(p) ==
  /\ pc[p] = "i_clist"
  /\ \E ok \in BOOLEAN :
       /\ Log(p, Event("containers.list", RedisName, ok))
       /\ IF ok
            THEN Goto(p, IF ListContainers(RedisName) # << >> THEN "i_log"
                                                              ELSE "i_run")
            ELSE InitExcept(p, "containers.list")
  /\ UNCHANGED <<networks, redis_dir, containers, opCount, call, pre, prev, api_keys>>

\* containers.run(image='redis', name='redis-cache', ...)
i_run(p) ==
  /\ pc[p] = "i_run"
  /\ \E out \in RunOutcomes :
       LET o == RunOutcome(RedisName, out) IN
       /\ Log(p, Event("run", RedisName, o = "ok"))
       /\ containers' =
            IF o = "error" THEN containers
            ELSE [containers EXCEPT ![RedisName] =
                    NewContainer(IF o = "ok" THEN "running" ELSE "created",
                                 call[p].n, "redis", "6379", << >>)]
       /\ IF o = "ok" THEN Goto(p, "i_connect") ELSE InitExcept(p, "run")
  /\ UNCHANGED <<networks, redis_dir, opCount, call, pre, prev, api_keys>>

i_connect(p) ==
  /\ pc[p] = "i_connect"
  /\ ConnectStatic(p, RedisName, RedisIP, "i_log", "i_fallback")

i_fallback(p) ==
  /\ pc[p] = "i_fallback"
  /\ ConnectDynamic(p, RedisName, "i_log")

\* log_initialize(True); return True
i_log(p) ==
  /\ pc[p] = "i_log"
  /\ Ctl(p, "done", "True", loc[p], Append(journal, log_initialize(TRUE, None)))
  /\ UNCHANGED <<networks, redis_dir, containers, opCount, call, trace, pre, prev, api_keys>>

\* ---------------------------------------------------------- deploy_adapter
StartDeploy(p) ==
  \E a \in AdapterNames, t \in Tags \cup {None} : Begin(p, "DEPLOY", a, t, "d_tags")

\* deploy_adapter returns res: to the caller, or into upgrade_adapter
DeployReturn(p, res, newloc, newjournal) ==
  IF call[p].op = "UPGRADE"
    THEN Ctl(p, "u_ret", "none", [newloc EXCEPT !.dres = res], newjournal)
    ELSE Ctl(p, "done", res, newloc, newjournal)

\* except Exception: log_deploy(adapter_name, tag, False, error_msg); return False
DeployExcept(p, what) ==
  DeployReturn(p, "False", loc[p],
    Append(journal, log_deploy(call[p].adapter, loc[p].tag, FALSE, what)))

\* an exception leaves deploy_adapter: to the caller, or into the
\* `except Exception` of upgrade_adapter
DeployRaise(p, what, newloc) ==
  IF call[p].op = "UPGRADE"
    THEN Ctl(p, "done", "False", newloc,
             Append(journal, log_upgrade(call[p].adapter, call[p].tag, FALSE, what)))
    ELSE Ctl(p, "done", "Raised", newloc, journal)

\* mutant: the default is the last element of the listing
DefaultTagLast(tags) == tags[Len(tags)]

\* tag = tags[0]
DefaultTag(tags) == tags[1]

\* if not tag: tags = self.get_available_tags(adapter_name) ... tag = tags[0]
d_tags(p) ==
  /\ pc[p] = "d_tags"
  /\ IF loc[p].tag # None
       THEN Goto(p, "d_config") /\ UNCHANGED trace
       ELSE \E resp \in RegistryResponses :
              LET r == get_available_tags(resp) IN
              /\ Log(p, Event("list_tags", call[p].adapter, resp.kind = "ok"))
              /\ IF r.raised
                   THEN DeployRaise(p, "list_tags", [loc[p] EXCEPT !.resp = resp])
                 ELSE IF r.tags = << >>
                   THEN DeployReturn(p, "False",
                          [loc[p] EXCEPT !.listed = TRUE, !.tags = r.tags,
                                         !.resp = resp], journal)
                 ELSE Ctl(p, "d_config", result[p],
                          [loc[p] EXCEPT !.listed = TRUE, !.tags = r.tags,
                                         !.resp = resp,
                                         !.tag = DefaultTag(r.tags)], journal)
  /\ UNCHANGED <<networks, redis_dir, containers, opCount, call, pre, prev, api_keys>>

\* adapter_config = self.config.get_adapter_config(adapter_name)
d_config(p) ==
  /\ pc[p] = "d_config"
  /\ IF get_adapter_config(call[p].adapter) = NoConfig
       THEN DeployReturn(p, "False", loc[p], journal) /\ UNCHANGED trace
       ELSE Goto(p, "d_netcheck") /\ Log(p, Event("resolved", call[p].adapter, TRUE))
  /\ UNCHANGED <<networks, redis_dir, containers, opCount, call, pre, prev, api_keys>>

\* networks.list(names=['eas-net']) in its own try: return False either way
d_netcheck(p) ==
  /\ pc[p] = "d_netcheck"
  /\ \E ok \in BOOLEAN :
       /\ Log(p, Event("networks.list", NetworkName, ok))
       /\ IF ok /\ ListNetworks(NetworkName) # {}
            THEN Goto(p, "d_list")
            ELSE DeployReturn(p, "False", loc[p], journal)
  /\ UNCHANGED <<networks, redis_dir, containers, opCount, call, pre, prev, api_keys>>

\* containers.list(all=True, filters={"name": container_name})
d_list(p) ==
  /\ pc[p] = "d_list"
  /\ \E ok \in BOOLEAN :
       LET name == ContainerName(call[p].adapter)
           existing_containers == ListContainers(name) IN
       /\ Log(p, Event("containers.list", name, ok))
       /\ IF ok
            THEN Ctl(p, IF existing_containers = << >> THEN "d_run" ELSE "d_remove",
                     result[p], [loc[p] EXCEPT !.existing = existing_containers],
                     journal)
            ELSE DeployExcept(p, "containers.list")
  /\ UNCHANGED <<networks, redis_dir, containers, opCount, call, pre, prev, api_keys>>

\* for container in existing_containers: container.remove(force=True)
d_remove(p) ==
  /\ pc[p] = "d_remove"
  /\ \E ok \in BOOLEAN :
       LET c == Head(loc[p].existing)
           rest == Tail(loc[p].existing)
           done == ok /\ Exists(c) IN
       /\ Log(p, Event("remove", c, done))
       /\ IF done
            THEN /\ containers' = [containers EXCEPT ![c] = NoContainer]
                 /\ Ctl(p, IF rest = << >> THEN "d_run" ELSE "d_remove", result[p],
                        [loc[p] EXCEPT !.existing = rest], journal)
            ELSE /\ DeployExcept(p, "remove")
                 /\ UNCHANGED containers
  /\ UNCHANGED <<networks, redis_dir, opCount, call, pre, prev, api_keys>>

\* self.docker_client.containers.run(image=image_name, name=container_name,
\* ports={f"{port}/tcp": int(port)}, ...): int(None) raises before the call
d_run(p) ==
  /\ pc[p] = "d_run"
  /\ LET name == ContainerName(call[p].adapter)
         adapter_config == get_adapter_config(call[p].adapter)
         port == Get(adapter_config, "port", "1113")
         env == env_vars(call[p].adapter, adapter_config,
                         get_api_key(api_keys, call[p].adapter),
                         get_subscription_tier(api_keys, call[p].adapter)) IN
     IF port = None
       THEN DeployExcept(p, "int(port)") /\ UNCHANGED <<containers, trace>>
       ELSE \E out \in RunOutcomes :
              LET o == RunOutcome(name, out) IN
              /\ Log(p, Event("run", name, o = "ok"))
              /\ containers' =
                   IF o = "error" THEN containers
                   ELSE [containers EXCEPT ![name] =
                           NewContainer(IF o = "ok" THEN "running" ELSE "created",
                                        call[p].n, loc[p].tag, port, env)]
              /\ IF o = "ok" THEN Goto(p, "d_connect") ELSE DeployExcept(p, "run")
  /\ UNCHANGED <<networks, redis_dir, opCount, call, pre, prev, api_keys>>

d_connect(p) ==
  /\ pc[p] = "d_connect"
  /\ ConnectStatic(p, ContainerName(call[p].adapter),
                   Get(get_adapter_config(call[p].adapter), "ip", "192.168.1.113"),
                   "d_log", "d_fallback")

d_fallback(p) ==
  /\ pc[p] = "d_fallback"
  /\ ConnectDynamic(p, ContainerName(call[p].adapter), "d_log")

\* self.op_logger.log_deploy(adapter_name, tag, True); return True
d_log(p) ==
  /\ pc[p] = "d_log"
  /\ DeployReturn(p, "True", loc[p],
       Append(journal, log_deploy(call[p].adapter, loc[p].tag, TRUE, None)))
  /\ UNCHANGED <<networks, redis_dir, containers, opCount, call, trace, pre, prev, api_keys>>

\* --------------------------------------------------------- upgrade_adapter
StartUpgrade(p) ==
  \E a \in AdapterNames, t \in Tags \cup {None} : Begin(p, "UPGRADE", a, t, "u_list")

\* except Exception: log_upgrade(adapter_name, tag, False, error_msg); return False
UpgradeExcept(p, what) ==
  Ctl(p, "done", "False", loc[p],
      Append(journal, log_upgrade(call[p].adapter, call[p].tag, FALSE, what)))

\* containers.list(...) before the try block; if not existing_containers: return False
u_list(p) ==
  /\ pc[p] = "u_list"
  /\ \E ok \in BOOLEAN :
       LET name == ContainerName(call[p].adapter)
           existing_containers == ListContainers(name) IN
       /\ Log(p, Event("containers.list", name, ok))
       /\ IF ~ok THEN Ctl(p, "done", "Raised", loc[p], journal)
          ELSE IF existing_containers = << >>
            THEN Ctl(p, "done", "False", loc[p], journal)
            ELSE Ctl(p, "u_stop", result[p],
                     [loc[p] EXCEPT !.existing = existing_containers], journal)
  /\ UNCHANGED <<networks, redis_dir, containers, opCount, call, pre, prev, api_keys>>

\* container.stop(): a container that is not running stays as it is
u_stop(p) ==
  /\ pc[p] = "u_stop"
  /\ \E ok \in BOOLEAN :
       LET c == Head(loc[p].existing)
           done == ok /\ Exists(c) IN
       /\ Log(p, Event("stop", c, done))
       /\ IF done
            THEN /\ containers' =
                      [containers EXCEPT ![c].status =
                         IF @ = "running" THEN "exited" ELSE @]
                 /\ Goto(p, "u_remove")
            ELSE /\ UpgradeExcept(p, "stop")
                 /\ UNCHANGED containers
  /\ UNCHANGED <<networks, redis_dir, opCount, call, pre, prev, api_keys>>

\* container.remove(); after the loop: result = self.deploy_adapter(adapter_name, tag)
u_remove(p) ==
  /\ pc[p] = "u_remove"
  /\ \E ok \in BOOLEAN :
       LET c == Head(loc[p].existing)
           rest == Tail(loc[p].existing)
           done == ok /\ Exists(c) /\ containers[c].status # "running" IN
       /\ Log(p, Event("remove", c, done))
       /\ IF done
            THEN /\ containers' = [containers EXCEPT ![c] = NoContainer]
                 /\ Ctl(p, IF rest = << >> THEN "d_tags" ELSE "u_stop", result[p],
                        [loc[p] EXCEPT !.existing = rest, !.tag = call[p].tag],
                        journal)
            ELSE /\ UpgradeExcept(p, "remove")
                 /\ UNCHANGED containers
  /\ UNCHANGED <<networks, redis_dir, opCount, call, pre, prev, api_keys>>

\* if result: self.op_logger.log_upgrade(adapter_name, tag, True); return result
u_ret(p) ==
  /\ pc[p] = "u_ret"
  /\ IF loc[p].dres = "True"
       THEN Ctl(p, "done", "True", loc[p],
                Append(journal, log_upgrade(call[p].adapter, call[p].tag, TRUE, None)))
       ELSE Ctl(p, "done", loc[p].dres, loc[p], journal)
  /\ UNCHANGED <<networks, redis_dir, containers, opCount, call, trace, pre, prev, api_keys>>

\* ------------------------------------------------------- specification
\* one invocation at a time: the tool is a one-shot command
Next ==
  \E p \in Tool :
    \/ StartInitialize(p)
    \/ i_docker(p) \/ i_netlist(p) \/ i_netcreate(p) \/ i_mkdir(p) \/ i_clist(p)
    \/ i_run(p) \/ i_connect(p) \/ i_fallback(p) \/ i_log(p)
    \/ StartDeploy(p)
    \/ d_tags(p) \/ d_config(p) \/ d_netcheck(p) \/ d_list(p) \/ d_remove(p)
    \/ d_run(p) \/ d_connect(p) \/ d_fallback(p) \/ d_log(p)
    \/ StartUpgrade(p)
    \/ u_list(p) \/ u_stop(p) \/ u_remove(p) \/ u_ret(p)

Spec == Init /\ [][Next]_vars

\* ------------------------------------- deployments of every configuration
\* Deploy of each discovered adapter, on each credential file
InitConfig == Constructed(InitialDocker, CredentialStores)

StartDeployConfig(p) ==
  \E a \in DOMAIN adapter_configs : Begin(p, "DEPLOY", a, "3.2.1", "d_tags")

NextConfig ==
  \E p \in Tool :
    \/ StartDeployConfig(p)
    \/ d_tags(p) \/ d_config(p) \/ d_netcheck(p) \/ d_list(p) \/ d_remove(p)
    \/ d_run(p) \/ d_connect(p) \/ d_fallback(p) \/ d_log(p)

SpecConfig == InitConfig /\ [][NextConfig]_vars

\* ------------------------------------------------------------ test_adapter
\* container names a caller may pass: an adapter's container, the cache, and
\* a name that is no container's
TestTargets == {"bitcoin-redis", RedisName, "adapter.example.org"}
Symbols == {<<"LINK", "USD">>, <<"ETH", "EUR">>}

\* what running curl can give: the executable is missing; curl exits
\* non-zero (it could not connect, or the connect timeout of 5 s passed);
\* curl exits zero and printed the response body, which is a JSON object
\* with a "result", a JSON object without one, JSON that is no object, or
\* not JSON
ProbeOutcomes == {"no_curl", "unreachable", "timeout",
                  "result", "no_result", "not_object", "not_json"}
ResultValue == "1.5"

StartTest(p) ==
  \E c \in TestTargets, ft \in Symbols : BeginWith(p, "TEST", c, None, "t_get", ft)

\* try: container = containers.get(container_name); container_ip = container.attrs
\* ['NetworkSettings']['Networks']['eas-net']['IPAddress']  except: container_ip =
\* container_name.  A container that is not running has the address ''.
t_get(p) ==
  /\ pc[p] = "t_get"
  /\ \E ok \in BOOLEAN :
       LET name == call[p].adapter
           found == ok /\ Exists(name)
           attached == found /\ containers[name].ip # "none"
           container_ip == IF ~attached THEN name
                           ELSE IF containers[name].status = "running"
                             THEN containers[name].ip ELSE "" IN
       /\ Log(p, Event("containers.get", name, found))
       /\ Ctl(p, "t_curl", result[p], [loc[p] EXCEPT !.host = container_ip], journal)
  /\ UNCHANGED <<networks, redis_dir, containers, opCount, call, pre, prev, api_keys>>

\* mutant: the handler sends the request once more before it gives up
TestExceptRetry(p, out, what) ==
  IF Len(trace[p]) < 3
    THEN Ctl(p, "t_curl", result[p], [loc[p] EXCEPT !.probe = out], journal)
    ELSE Ctl(p, "done", None, [loc[p] EXCEPT !.probe = out],
             Append(journal, log_test(call[p].adapter, call[p].params[1],
                                      call[p].params[2], FALSE, what)))

\* mutant: the handler returns None and journals nothing
TestExceptSilent(p, out, what) ==
  Ctl(p, "done", None, [loc[p] EXCEPT !.probe = out], journal)

\* except ...: self.op_logger.log_test(container_name, from_param, to_param, False,
\* error_msg); return None
TestExcept(p, out, what) ==
  Ctl(p, "done", None, [loc[p] EXCEPT !.probe = out],
      Append(journal, log_test(call[p].adapter, call[p].params[1], call[p].params[2],
                               FALSE, what)))

\* subprocess.run(curl_cmd, check=True); response = json.loads(result.stdout);
\* adapter_result = response.get("result"); log_test(..., True, adapter_result);
\* return adapter_result
t_curl(p) ==
  /\ pc[p] = "t_curl"
  /\ \E out \in ProbeOutcomes :
       /\ Log(p, Event("curl", loc[p].host \o ":1113",
                       out \notin {"no_curl", "unreachable", "timeout"}))
       /\ CASE out \in {"unreachable", "timeout"} -> TestExcept(p, out, "CalledProcessError")
            [] out = "not_json" -> TestExcept(p, out, "JSONDecodeError")
            [] out \in {"no_curl", "not_object"} -> TestExcept(p, out, "Exception")
            [] out \in {"result", "no_result"} ->
                 LET adapter_result == IF out = "result" THEN ResultValue ELSE None IN
                 Ctl(p, "done", adapter_result, [loc[p] EXCEPT !.probe = out],
                     Append(journal,
                            log_test(call[p].adapter, call[p].params[1],
                                     call[p].params[2], TRUE, adapter_result)))
  /\ UNCHANGED <<networks, redis_dir, containers, opCount, call, pre, prev, api_keys>>

NextTest ==
  \E p \in Tool :
    \/ StartDeployConfig(p)
    \/ d_tags(p) \/ d_config(p) \/ d_netcheck(p) \/ d_list(p) \/ d_remove(p)
    \/ d_run(p) \/ d_connect(p) \/ d_fallback(p) \/ d_log(p)
    \/ StartTest(p) \/ t_get(p) \/ t_curl(p)

SpecTest == Init /\ [][NextTest]_vars

\* ------------------------------------------------------ tag listings
\* the tags of a repository, in the order the registry holds them
PoolSeq == <<"3.2.0", "3.10.0", "3.1.0", "3.9.0", "3.2.1", "3.0.0",
             "3.11.0", "3.3.0", "3.1.1", "3.0.1", "3.4.0", "3.2.10">>

\* the tags at the positions D, in the registry's order
Pick(D) ==
  LET F[i \in 0..Len(PoolSeq)] ==
        IF i = 0 THEN << >>
        ELSE IF i \in D THEN Append(F[i - 1], PoolSeq[i]) ELSE F[i - 1]
  IN F[Len(PoolSeq)]

Reverse(xs) == [i \in 1..Len(xs) |-> xs[Len(xs) + 1 - i]]

\* the answers for repositories that hold any of these tags (a registry
\* lists a tag once), in the registry's order or in the opposite order
WideResponses ==
  { [kind |-> "ok", Tags |-> IF rev THEN Reverse(Pick(D)) ELSE Pick(D)]
      : D \in SUBSET (1..Len(PoolSeq)), rev \in BOOLEAN }

\* the command-line front end asks for the listing itself
StartListTags(p) == Begin(p, "LIST_TAGS", "coin", None, "g_run")

\* get_available_tags(adapter_name), the registry giving one of the answers
ListTagsFrom(p, answers) ==
  /\ pc[p] = "g_run"
  /\ \E resp \in answers :
       LET r == get_available_tags(resp) IN
       /\ Log(p, Event("list_tags", call[p].adapter, resp.kind = "ok"))
       /\ IF r.raised
            THEN Ctl(p, "done", "Raised", [loc[p] EXCEPT !.resp = resp], journal)
            ELSE Ctl(p, "done", "Returned",
                     [loc[p] EXCEPT !.listed = TRUE, !.tags = r.tags, !.resp = resp],
                     journal)
  /\ UNCHANGED <<networks, redis_dir, containers, opCount, call, pre, prev, api_keys>>

g_run(p) == ListTagsFrom(p, RegistryResponses \cup WideResponses)

NextTags == \E p \in Tool : StartListTags(p) \/ g_run(p)

SpecTags == Init /\ [][NextTags]_vars

\* --------------------------------------------- probes of deployed adapters
\* what initialize_environment and then deploy_adapter(a, "3.2.0"), every
\* call succeeding, leave on a daemon
DeployedDocker(a) ==
  [networks |-> {NetworkName}, redis_dir |-> TRUE,
   containers |-> [n \in ContainerNames |->
      IF n = RedisName
        THEN [status |-> "running", id |-> 0, tag |-> "redis",
              ip |-> RedisIP, port |-> "6379", env |-> << >>]
      ELSE IF n = ContainerName(a)
        THEN [status |-> "running", id |-> 0, tag |-> "3.2.0",
              ip |-> adapter_configs[a].ip, port |-> adapter_configs[a].port,
              env |-> env_vars(a, adapter_configs[a], get_api_key(DefaultStore, a),
                               get_subscription_tier(DefaultStore, a))]
      ELSE NoContainer]]

InitProbe == Constructed({DeployedDocker("bitcoin")}, {DefaultStore})

StartDeployOf(p, a) == Begin(p, "DEPLOY", a, "3.2.1", "d_tags")
StartUpgradeOf(p, a) == Begin(p, "UPGRADE", a, "3.2.1", "u_list")

\* an operator redeploys or upgrades the adapter and probes containers
NextProbe ==
  \E p \in Tool :
    \/ StartDeployOf(p, "bitcoin")
    \/ StartUpgradeOf(p, "bitcoin")
    \/ u_list(p) \/ u_stop(p) \/ u_remove(p) \/ u_ret(p)
    \/ d_tags(p) \/ d_config(p) \/ d_netcheck(p) \/ d_list(p) \/ d_remove(p)
    \/ d_run(p) \/ d_connect(p) \/ d_fallback(p) \/ d_log(p)
    \/ StartTest(p) \/ t_get(p) \/ t_curl(p)

SpecProbe == InitProbe /\ [][NextProbe]_vars

\* ------------------------------------------- remote sides that do not answer
\* subprocess.run(curl_cmd, ...) has no timeout= and curl is given
\* --connect-timeout only: a server that accepts the connection and sends
\* nothing keeps curl, and the call, waiting
t_hang(p) ==
  /\ pc[p] = "t_curl"
  /\ Log(p, Event("curl", loc[p].host \o ":1113", FALSE))
  /\ Ctl(p, "t_blocked", result[p], [loc[p] EXCEPT !.probe = "silent"], journal)
  /\ UNCHANGED <<networks, redis_dir, containers, opCount, call, pre, prev, api_keys>>

\* subprocess.run(["skopeo", "list-tags", ...]) has no timeout= and skopeo is
\* given no --command-timeout: a registry that does not answer keeps the
\* call waiting
g_hang(p) ==
  /\ pc[p] = "g_run"
  /\ Log(p, Event("list_tags", call[p].adapter, FALSE))
  /\ Ctl(p, "g_blocked", result[p], [loc[p] EXCEPT !.resp = [kind |-> "silent", Tags |-> << >>]],
         journal)
  /\ UNCHANGED <<networks, redis_dir, containers, opCount, call, pre, prev, api_keys>>

\* the registry answers
g_answer(p) == ListTagsFrom(p, RegistryResponses)

NextLive ==
  \E p \in Tool :
    \/ StartTest(p) \/ t_get(p) \/ t_curl(p) \/ t_hang(p)
    \/ StartListTags(p) \/ g_answer(p) \/ g_hang(p)

\* a process that can take a step takes one
SpecLive == Init /\ [][NextLive]_vars /\ WF_vars(NextLive)

\* ------------------------------------------------ two operators at a time
\* two processes of the tool on one daemon, each step of a process being one
\* call to the daemon; the daemon holds nothing yet, is initialized, or has
\* the adapter 'coin' deployed
InitRace == Constructed(InitialDocker \cup {DeployedDocker("coin")}, {DefaultStore})

NextRace ==
  \E p \in Procs :
    \/ StartInitialize(p)
    \/ i_docker(p) \/ i_netlist(p) \/ i_netcreate(p) \/ i_mkdir(p) \/ i_clist(p)
    \/ i_run(p) \/ i_connect(p) \/ i_fallback(p) \/ i_log(p)
    \/ StartDeployOf(p, "coin")
    \/ d_tags(p) \/ d_config(p) \/ d_netcheck(p) \/ d_list(p) \/ d_remove(p)
    \/ d_run(p) \/ d_connect(p) \/ d_fallback(p) \/ d_log(p)
    \/ StartUpgradeOf(p, "coin")
    \/ u_list(p) \/ u_stop(p) \/ u_remove(p) \/ u_ret(p)

SpecRace == InitRace /\ [][NextRace]_vars

\* --------------------------------------------------- killed runs, re-runs
\* the process in slot p is killed between two calls to the daemon: nothing
\* is returned, nothing is journaled, the daemon keeps what was done
Kill(p) ==
  /\ pc[p] \notin {"idle", "done"}
  /\ Ctl(p, "done", "Killed", loc[p], journal)
  /\ UNCHANGED <<networks, redis_dir, containers, opCount, call, trace, pre, prev, api_keys>>

\* the first step of each operation
FirstStep(op) ==
  CASE op = "INITIALIZE" -> "i_docker" [] op = "DEPLOY" -> "d_tags" [] op = "UPGRADE" -> "u_list"

\* the operator runs the command of slot 1 again, in slot 2, once the
\* process in slot 1 has ended
StartRerun(p) ==
  /\ p = 2 /\ pc[1] = "done"
  /\ Begin(p, call[1].op, call[1].adapter, call[1].tag, FirstStep(call[1].op))

NextKill ==
  \/ \E p \in Tool :
       StartInitialize(p) \/ StartDeployOf(p, "coin") \/ StartUpgradeOf(p, "coin")
  \/ \E p \in Procs :
       \/ StartRerun(p) \/ Kill(p)
       \/ i_docker(p) \/ i_netlist(p) \/ i_netcreate(p) \/ i_mkdir(p) \/ i_clist(p)
       \/ i_run(p) \/ i_connect(p) \/ i_fallback(p) \/ i_log(p)
       \/ d_tags(p) \/ d_config(p) \/ d_netcheck(p) \/ d_list(p) \/ d_remove(p)
       \/ d_run(p) \/ d_connect(p) \/ d_fallback(p) \/ d_log(p)
       \/ u_list(p) \/ u_stop(p) \/ u_remove(p) \/ u_ret(p)

SpecKill == InitRace /\ [][NextKill]_vars

\* ------------------------------------------------- the command-line front end
\* command lines: -i; -d ADAPTER [--tag T]; -u ADAPTER [--tag T];
\* -t CONTAINER [FROM [TO]]
CommandLines ==
  {[op |-> "INITIALIZE", name |-> None, tag |-> None, params |-> << >>]}
  \cup {[op |-> o, name |-> a, tag |-> t, params |-> << >>] :
          o \in {"DEPLOY", "UPGRADE"}, a \in {"coin", "in"}, t \in {None, "3.2.1"}}
  \cup {[op |-> "TEST", name |-> c, tag |-> None, params |-> ps] :
          c \in {"coin-redis", RedisName}, ps \in {<<"LINK">>, <<"LINK", "USD">>}}

\* main(): the branch of the command, up to the call into the manager
c_main(p) ==
  \E a \in CommandLines :
    /\ pc[p] = "done" => loc[p].exit >= 0
    /\ BeginWith(p, a.op, a.name, a.tag,
                 CASE a.op = "TEST" -> "c_params"
                   [] a.op \in {"DEPLOY", "UPGRADE"} /\ a.tag = None -> "c_tags"
                   [] OTHER -> FirstStep(a.op),
                 a.params)

\* the process ends with status 1 before the manager is called
SysExit1(p, newloc) ==
  Ctl(p, "done", result[p], [newloc EXCEPT !.exit = 1], journal)

\* cli.deploy_adapter / cli.upgrade_adapter, `if not tag:`: the listing, 'No
\* tags found', or the prompt, which is repeated until the answer is an
\* index of the listing; input() raises EOFError when stdin is closed
c_tags(p) ==
  /\ pc[p] = "c_tags"
  /\ \E resp \in RegistryResponses, eof \in BOOLEAN :
       LET r == get_available_tags(resp)
           l == [loc[p] EXCEPT !.listed = ~r.raised, !.tags = r.tags, !.resp = resp] IN
       /\ Log(p, Event("list_tags", call[p].adapter, resp.kind = "ok"))
       /\ IF r.raised \/ (r.tags # << >> /\ eof)
            THEN Ctl(p, "done", "Raised", l, journal) /\ UNCHANGED call
          ELSE IF r.tags = << >>
            THEN SysExit1(p, l) /\ UNCHANGED call
          ELSE \E index \in 1..Len(r.tags) :
                 /\ call' = [call EXCEPT ![p].tag = r.tags[index]]
                 /\ Ctl(p, FirstStep(call[p].op), result[p],
                        [l EXCEPT !.tag = r.tags[index]], journal)
  /\ UNCHANGED <<networks, redis_dir, containers, opCount, pre, prev, api_keys>>

\* cli.test_adapter: if len(params) < 2: ... sys.exit(1)
c_params(p) ==
  /\ pc[p] = "c_params"
  /\ IF Len(call[p].params) < 2 THEN SysExit1(p, loc[p]) ELSE Goto(p, "t_get")
  /\ UNCHANGED <<networks, redis_dir, containers, opCount, call, trace, pre, prev, api_keys>>

\* mutant: no branch calls sys.exit(1)
ExitStatusZero(op, res) == 0

\* the status the process ends with once the manager has returned res (or
\* raised): sys.exit(1) in the else branch, 0 at the end of main(), 1 from
\* the interpreter for an exception nothing caught
ExitStatus(op, res) ==
  CASE res = "Raised" -> 1
    [] op = "TEST" -> IF res # None THEN 0 ELSE 1
    [] OTHER -> IF res = "True" THEN 0 ELSE 1

c_exit(p) ==
  /\ pc[p] = "done" /\ loc[p].exit < 0
  /\ Ctl(p, "done", result[p],
         [loc[p] EXCEPT !.exit = ExitStatus(call[p].op, result[p])], journal)
  /\ UNCHANGED <<networks, redis_dir, containers, opCount, call, trace, pre, prev, api_keys>>

NextCLI ==
  \E p \in Tool :
    \/ c_main(p) \/ c_tags(p) \/ c_params(p) \/ c_exit(p)
    \/ i_docker(p) \/ i_netlist(p) \/ i_netcreate(p) \/ i_mkdir(p) \/ i_clist(p)
    \/ i_run(p) \/ i_connect(p) \/ i_fallback(p) \/ i_log(p)
    \/ d_tags(p) \/ d_config(p) \/ d_netcheck(p) \/ d_list(p) \/ d_remove(p)
    \/ d_run(p) \/ d_connect(p) \/ d_fallback(p) \/ d_log(p)
    \/ u_list(p) \/ u_stop(p) \/ u_remove(p) \/ u_ret(p)
    \/ t_get(p) \/ t_curl(p)

SpecCLI == Init /\ [][NextCLI]_vars

\* ------------------------------------------ adapters that share an address
\* Initialize, Deploy and Upgrade of 'coin' and 'coingecko', which are
\* configured with the same address
NextAddr ==
  \E p \in Tool :
    \/ StartInitialize(p)
    \/ i_docker(p) \/ i_netlist(p) \/ i_netcreate(p) \/ i_mkdir(p) \/ i_clist(p)
    \/ i_run(p) \/ i_connect(p) \/ i_fallback(p) \/ i_log(p)
    \/ \E a \in {"coin", "coingecko"} : StartDeployOf(p, a) \/ StartUpgradeOf(p, a)
    \/ d_tags(p) \/ d_config(p) \/ d_netcheck(p) \/ d_list(p) \/ d_remove(p)
    \/ d_run(p) \/ d_connect(p) \/ d_fallback(p) \/ d_log(p)
    \/ u_list(p) \/ u_stop(p) \/ u_remove(p) \/ u_ret(p)

SpecAddr == InitRace /\ [][NextAddr]_vars

\* ------------------------------------------------------------ properties
\* vocabulary of the properties below
Done(p) == pc[p] = "done"
Known(a) == a \in DOMAIN adapter_configs
Clean(p) == \A i \in 1..Len(trace[p]) : trace[p][i].ok
ContainerActs == {"stop", "remove", "run"}
Acted(p, acts) == \E i \in 1..Len(trace[p]) : trace[p][i].act \in acts
Did(p, act, target) ==
  \E i \in 1..Len(trace[p]) :
    /\ trace[p][i].act = act /\ trace[p][i].target = target /\ trace[p][i].ok
\* the journal records the invocation in slot p has appended
\* a container of that name existed when the invocation in slot p started
Existed(p, name) ==
  name \in DOMAIN pre[p].containers /\ pre[p].containers[name] # NoContainer
Appended(p) == SubSeq(journal, pre[p].journal + 1, Len(journal))
Records(p, operation) ==
  {i \in 1..Len(Appended(p)) : Appended(p)[i].operation = operation}

\* the second of two consecutive Deploy(A, tag=T), network present, every
\* runtime call of both succeeding
SecondDeploy(p) ==
  /\ Done(p) /\ call[p].op = "DEPLOY" /\ Known(call[p].adapter)
  /\ call[p].tag # None
  /\ prev.op = "DEPLOY" /\ prev.adapter = call[p].adapter
  /\ prev.argtag = call[p].tag
  /\ prev.netAtStart /\ prev.clean
  /\ Clean(p)

\* C1: Deploy(A, tag=T) twice in a row, network present and all runtime
\* actions succeeding, leaves one container "A-redis", running, of tag T,
\* launched by the second call, which force-removed the container the first
\* call had launched before it launched its own.
C1_DeployTwice ==
  \A p \in Procs :
    SecondDeploy(p) =>
      LET name == ContainerName(call[p].adapter) IN
      /\ result[p] = "True"
      /\ prev.result = "True"
      /\ Cardinality({n \in ContainerNames :
                        Exists(n) /\ n = name}) = 1
      /\ containers[name].status = "running"
      /\ containers[name].tag = call[p].tag
      /\ containers[name].id = call[p].n
      /\ Existed(p, name)
      /\ pre[p].containers[name].id = prev.n
      /\ \E i, j \in 1..Len(trace[p]) :
           /\ i < j
           /\ trace[p][i] = Event("remove", name, TRUE)
           /\ trace[p][j] = Event("run", name, TRUE)

C1_Witness ==
  \E p \in Procs : SecondDeploy(p) /\ containers[ContainerName(call[p].adapter)].id = 2

\* C2: a Deploy started while the network 'eas-net' is absent does not
\* succeed (it returns False once it has looked the network up) and makes no
\* container action: nothing is stopped, removed or launched, the containers
\* are as they were.
C2_NoNetworkNoAction ==
  \A p \in Procs :
    (call[p].op = "DEPLOY" /\ NetworkName \notin pre[p].networks) =>
      /\ ~Acted(p, ContainerActs \cup {"connect_static", "connect"})
      /\ containers = pre[p].containers
      /\ result[p] # "True"
      /\ (Done(p) /\ Acted(p, {"networks.list"})) => result[p] = "False"

C2_Witness ==
  \E p \in Procs :
    /\ Done(p) /\ call[p].op = "DEPLOY" /\ NetworkName \notin pre[p].networks
    /\ Known(call[p].adapter)
    /\ trace[p][Len(trace[p])] = Event("networks.list", NetworkName, TRUE)
    /\ result[p] = "False"

\* C3: in every run of Deploy and Upgrade no container is stopped, removed
\* or launched before the adapter's configuration is resolved, and for an
\* adapter that is not in the static-config set the operation fails and
\* leaves every container as it was.
C3_ResolvedBeforeAction ==
  \A p \in Procs :
    call[p].op \in {"DEPLOY", "UPGRADE"} =>
      /\ \A i \in 1..Len(trace[p]) :
           trace[p][i].act \in ContainerActs =>
             \E j \in 1..(i - 1) : trace[p][j].act = "resolved"
      /\ ~Known(call[p].adapter) =>
           /\ result[p] # "True"
           /\ containers = pre[p].containers

\* the part of C3 that is about Deploy alone
C3_DeployResolvesFirst ==
  \A p \in Procs :
    call[p].op = "DEPLOY" =>
      /\ \A i \in 1..Len(trace[p]) :
           trace[p][i].act \in ContainerActs =>
             \E j \in 1..(i - 1) : trace[p][j].act = "resolved"
      /\ ~Known(call[p].adapter) =>
           /\ result[p] # "True"
           /\ containers = pre[p].containers

\* the tag listing was asked for and came back empty
EmptyListing(p) ==
  /\ call[p].tag = None /\ loc[p].listed /\ loc[p].tags = << >>

\* C4: with no tag supplied and an empty tag listing, Deploy and Upgrade
\* return failure without having stopped, removed or launched a container:
\* every container that existed before the call still exists.
C4_NoTagsNoAction ==
  \A p \in Procs :
    (Done(p) /\ call[p].op \in {"DEPLOY", "UPGRADE"} /\ EmptyListing(p)) =>
      /\ result[p] = "False"
      /\ ~Acted(p, ContainerActs)
      /\ \A n \in ContainerNames : Existed(p, n) => Exists(n)

\* C5: an Upgrade of adapter A while no container named "A-redis" exists
\* (the listing call itself succeeding) returns False, makes no container or
\* network action and appends no SUCCESS record to the journal.
C5_UpgradeNotFound ==
  \A p \in Procs :
    ( /\ Done(p) /\ call[p].op = "UPGRADE"
      /\ ~Existed(p, ContainerName(call[p].adapter))
      /\ trace[p][1].ok ) =>
      /\ result[p] = "False"
      /\ Len(trace[p]) = 1
      /\ containers = pre[p].containers /\ networks = pre[p].networks
      /\ \A i \in 1..Len(Appended(p)) : Appended(p)[i].status # "SUCCESS"

\* C6: Upgrade stops, then removes, then deploys; when it does not succeed
\* after it removed the old container "A-redis", no container of that name
\* exists.
C6_UpgradeNoPartialState ==
  \A p \in Procs :
    LET name == ContainerName(call[p].adapter) IN
    call[p].op = "UPGRADE" =>
      /\ \A i \in 1..Len(trace[p]) :
           /\ trace[p][i].act = "remove" =>
                /\ i > 1
                /\ trace[p][i - 1] = Event("stop", trace[p][i].target, TRUE)
           /\ trace[p][i].act \in {"list_tags", "resolved", "networks.list", "run"} =>
                /\ \E j \in 1..(i - 1) : trace[p][j].act = "remove" /\ trace[p][j].ok
                /\ \A j \in (i + 1)..Len(trace[p]) :
                      trace[p][j].act \notin {"stop", "remove"}
      /\ (Done(p) /\ result[p] # "True" /\ Did(p, "remove", name)) => ~Exists(name)

\* C7: Initialize creates no network when one exists and launches no cache
\* container when one exists, whatever state they are in, and leaves both as
\* they were; started with both present it makes no creation action at all
\* and, its runtime calls succeeding, returns True.
C7_InitializeIdempotent ==
  \A p \in Procs :
    call[p].op = "INITIALIZE" =>
      /\ NetworkName \in pre[p].networks =>
           /\ ~Acted(p, {"networks.create"})
           /\ networks = pre[p].networks
      /\ Existed(p, RedisName) =>
           /\ ~Acted(p, {"makedirs", "run", "connect_static", "connect",
                          "stop", "remove"})
           /\ containers = pre[p].containers
      /\ (NetworkName \in pre[p].networks /\ Existed(p, RedisName)
            /\ Done(p) /\ Clean(p)) =>
           /\ result[p] = "True"
           /\ Len(trace[p]) = 3

\* the cache container is there but was never started or never attached
C7_Witness ==
  \E p \in Procs :
    /\ Done(p) /\ call[p].op = "INITIALIZE" /\ result[p] = "True"
    /\ NetworkName \in pre[p].networks /\ Existed(p, RedisName)
    /\ pre[p].containers[RedisName].ip # RedisIP

\* the i-th call of the invocation in slot p failed
Failed(p, i) == ~trace[p][i].ok

\* C8: a failed attachment with the static address is followed by exactly
\* one attachment without an address, on the same container, and by no
\* other call; the operation then returns True whatever that second
\* attachment did.  Any other failed call is the last call the invocation
\* makes: nothing else is tried again.
C8_StaticIpFallback ==
  \A p \in Procs :
    /\ \A i \in 1..Len(trace[p]) :
         Failed(p, i) =>
           IF trace[p][i].act = "connect_static"
             THEN /\ i + 1 <= Len(trace[p]) =>
                       /\ trace[p][i + 1].act = "connect"
                       /\ trace[p][i + 1].target = trace[p][i].target
                  /\ Len(trace[p]) <= i + 1
                  /\ Done(p) => (Len(trace[p]) = i + 1 /\ result[p] = "True")
                  /\ pc[p] \in {"i_fallback", "d_fallback"} <=> Len(trace[p]) = i
             ELSE i = Len(trace[p])
    /\ pc[p] \in {"i_fallback", "d_fallback"} =>
         (Len(trace[p]) > 0 /\ trace[p][Len(trace[p])].act = "connect_static"
            /\ Failed(p, Len(trace[p])))

\* the fallback attachment failed as well, and the operation succeeded
C8_Witness ==
  \E p \in Procs :
    /\ Done(p) /\ result[p] = "True" /\ Len(trace[p]) >= 2
    /\ call[p].op \in {"DEPLOY", "INITIALIZE"}
    /\ trace[p][Len(trace[p])].act = "connect" /\ Failed(p, Len(trace[p]))
    /\ trace[p][Len(trace[p]) - 1].act = "connect_static"

\* the attachment with the static address failed: the fallback was taken
AttachmentTrouble(p) ==
  \E i \in 1..Len(trace[p]) : trace[p][i].act = "connect_static" /\ Failed(p, i)

\* C9: after a Deploy or Initialize whose post-launch attachment failed or
\* fell back, the launched container is still there and running, the
\* operation returned True, and the journal holds a warning record of that
\* run (which a run with a successful static attachment does not produce).
C9_FallbackJournaled ==
  \A p \in Procs :
    (Done(p) /\ call[p].op \in {"DEPLOY", "INITIALIZE"} /\ AttachmentTrouble(p)) =>
      LET name == IF call[p].op = "DEPLOY" THEN ContainerName(call[p].adapter)
                                           ELSE RedisName IN
      /\ Exists(name) /\ containers[name].status = "running"
      /\ containers[name].id = call[p].n
      /\ result[p] = "True"
      /\ \E i \in 1..Len(Appended(p)) :
           \/ Appended(p)[i].level = "WARNING"
           \/ Appended(p)[i].details.error # None

\* C10: an invocation that has ended has appended exactly one journal record
\* of its own kind, and that record's outcome is the outcome it returned.
C10_OneRecordPerOutcome ==
  \A p \in Procs :
    Done(p) =>
      /\ Cardinality(Records(p, call[p].op)) = 1
      /\ \A i \in Records(p, call[p].op) :
           Appended(p)[i].status = (IF result[p] = "True" THEN "SUCCESS" ELSE "FAILURE")

\* the calls to the container runtime other than the attachment
RuntimeCalls ==
  {"networks.list", "containers.list", "networks.create", "remove", "stop", "run"}

\* C11: a failed runtime call other than the attachment (listing networks or
\* containers, creating the network, removing, stopping, launching) is the
\* last call of its Initialize, Deploy or Upgrade, which does not raise but
\* returns False and has appended a FAILURE record to the journal.
C11_FailureAborts ==
  \A p \in Procs :
    \A i \in 1..Len(trace[p]) :
      (trace[p][i].act \in RuntimeCalls /\ Failed(p, i)) =>
        /\ i = Len(trace[p])
        /\ result[p] # "Raised"
        /\ Done(p) =>
             /\ result[p] = "False"
             /\ \E j \in 1..Len(Appended(p)) : Appended(p)[j].status = "FAILURE"

\* the fleet-wide fallback port
FallbackPort == "1113"

\* a Deploy of a discovered adapter that ended, network present at its
\* start, no runtime call of it failing
CleanDeploy(p) ==
  /\ Done(p) /\ call[p].op = "DEPLOY" /\ Known(call[p].adapter)
  /\ NetworkName \in pre[p].networks /\ Clean(p)

\* C12: a Deploy of an adapter whose discovery found no ip and/or no port,
\* with the network present and no runtime call failing, returns True and
\* leaves the adapter's container running, launched by this call, its
\* exposed port and EA_PORT being the adapter's port or, if that is
\* missing, the fallback port 1113.
C12_MissingFieldsDefaulted ==
  \A p \in Procs :
    LET cfg == get_adapter_config(call[p].adapter)
        name == ContainerName(call[p].adapter)
        port == IF cfg.port = None THEN FallbackPort ELSE cfg.port IN
    (CleanDeploy(p) /\ (cfg.ip = None \/ cfg.port = None)) =>
      /\ result[p] = "True"
      /\ Exists(name) /\ containers[name].status = "running"
      /\ containers[name].id = call[p].n
      /\ containers[name].port = port
      /\ containers[name].env.EA_PORT = port

\* C13: a Deploy of an adapter whose configured ip is not in the subnet
\* 192.168.0.0/16 (the daemon answering every other call) does not succeed
\* and does not raise: it returns False, and the container it may have
\* launched is attached to the network neither with that address nor with
\* another one.
C13_OutsideSubnetRejected ==
  \A p \in Procs :
    LET cfg == get_adapter_config(call[p].adapter)
        name == ContainerName(call[p].adapter) IN
    (call[p].op = "DEPLOY" /\ Known(call[p].adapter)
       /\ cfg.ip # None /\ ~InSubnet(cfg.ip)
       /\ \A i \in 1..Len(trace[p]) :
            Failed(p, i) => trace[p][i].act = "connect_static") =>
      /\ result[p] \notin {"True", "Raised"}
      /\ Done(p) => result[p] = "False"
      /\ (Exists(name) /\ containers[name].id = call[p].n) =>
           containers[name].ip = "none"

\* the credential file has a line for the variable / a line with a value
Stored(var) == var # None /\ var \in DOMAIN api_keys
StoredValue(var) == Stored(var) /\ api_keys[var] # ""

\* the adapters whose container exists: in SpecConfig each was launched by a
\* Deploy of this behaviour
Launched == {a \in DOMAIN adapter_configs : Exists(ContainerName(a))}

\* C14 as stated: the environment of every launched adapter container holds
\* API_KEY iff the credential file has an entry under the adapter's
\* api_key variable, then with the stored value, likewise
\* RATE_LIMIT_API_TIER for the tier variable, and no entry of the
\* environment is empty or a placeholder.
C14_CredentialKeysOfEntries ==
  \A a \in Launched :
    LET env == containers[ContainerName(a)].env
        cfg == get_adapter_config(a) IN
    /\ ("API_KEY" \in DOMAIN env) <=> Stored(cfg.api_key_var)
    /\ Stored(cfg.api_key_var) => env["API_KEY"] = api_keys[cfg.api_key_var]
    /\ ("RATE_LIMIT_API_TIER" \in DOMAIN env) <=> Stored(cfg.sub_tier_var)
    /\ Stored(cfg.sub_tier_var) =>
         env["RATE_LIMIT_API_TIER"] = api_keys[cfg.sub_tier_var]
    /\ \A k \in DOMAIN env : env[k] \notin {"", None}

\* C14, amended: the environment of every launched adapter container holds
\* API_KEY iff the credential file has a non-empty value under the adapter's
\* api_key variable, then with exactly that value, likewise
\* RATE_LIMIT_API_TIER for the tier variable; an adapter without such a
\* variable, or whose variable the file does not have, is launched without
\* the key, and no entry of the environment is empty or a placeholder.
C14_CredentialKeys ==
  \A a \in Launched :
    LET env == containers[ContainerName(a)].env
        cfg == get_adapter_config(a) IN
    /\ ("API_KEY" \in DOMAIN env) <=> StoredValue(cfg.api_key_var)
    /\ StoredValue(cfg.api_key_var) => env["API_KEY"] = api_keys[cfg.api_key_var]
    /\ ("RATE_LIMIT_API_TIER" \in DOMAIN env) <=> StoredValue(cfg.sub_tier_var)
    /\ StoredValue(cfg.sub_tier_var) =>
         env["RATE_LIMIT_API_TIER"] = api_keys[cfg.sub_tier_var]
    /\ \A k \in DOMAIN env : env[k] \notin {"", None}

\* two launched adapters: one with a stored key and an empty tier line, one
\* whose key variable the credential file does not have
C14_Witness ==
  /\ {"coingecko", "coin"} \subseteq Launched
  /\ StoredValue("COINGECKO_API_KEY")
  /\ Stored("COINGECKO_SUB_HTTP") /\ ~StoredValue("COINGECKO_SUB_HTTP")
  /\ containers["coingecko-redis"].env["API_KEY"] = "abc123"
  /\ ~Stored(adapter_configs["coin"].api_key_var)

\* the keys every adapter container is given
BaselineKeys ==
  {"EA_PORT", "CACHE_ENABLED", "CACHE_TYPE", "CACHE_KEY_GROUP", "CACHE_REDIS_HOST",
   "CACHE_REDIS_PORT", "CACHE_REDIS_TIMEOUT", "RATE_LIMIT_ENABLED", "WARMUP_ENABLED",
   "RATE_LIMIT_API_PROVIDER", "REQUEST_COALESCING_ENABLED",
   "REQUEST_COALESCING_INTERVAL", "REQUEST_COALESCING_INTERVAL_MAX",
   "REQUEST_COALESCING_INTERVAL_COEFFICIENT", "REQUEST_COALESCING_ENTROPY_MAX",
   "LOG_LEVEL", "DEBUG", "API_VERBOSE", "EXPERIMENTAL_METRICS_ENABLED",
   "METRICS_NAME", "RETRY", "TIMEOUT"}

\* C15: the environment of every launched adapter container has all the
\* baseline keys and beyond them at most the two credential keys, EA_PORT is
\* the adapter's own port, CACHE_KEY_GROUP, RATE_LIMIT_API_PROVIDER and
\* METRICS_NAME are the adapter's name; a Deploy that replaces the container
\* an earlier Deploy of the same adapter launched gives it the same
\* environment; 'coingecko' with COINGECKO_API_KEY = 'abc123' and no tier
\* value gets API_KEY = abc123 and no RATE_LIMIT_API_TIER.
C15_BaselineEnv ==
  \A a \in Launched :
    LET name == ContainerName(a)
        env == containers[name].env IN
    /\ BaselineKeys \subseteq DOMAIN env
    /\ DOMAIN env \subseteq BaselineKeys \cup {"API_KEY", "RATE_LIMIT_API_TIER"}
    /\ env["EA_PORT"] = adapter_configs[a].port
    /\ env["CACHE_KEY_GROUP"] = a
    /\ env["RATE_LIMIT_API_PROVIDER"] = a
    /\ env["METRICS_NAME"] = a
    /\ \A p \in Procs :
         (Existed(p, name) /\ containers[name].id = call[p].n) =>
           env = pre[p].containers[name].env
    /\ (a = "coingecko" /\ Lookup(api_keys, "COINGECKO_API_KEY") = "abc123"
          /\ ~StoredValue("COINGECKO_SUB_HTTP")) =>
         /\ env["API_KEY"] = "abc123"
         /\ "RATE_LIMIT_API_TIER" \notin DOMAIN env

\* the scenario, the container being the second that was launched for
\* 'coingecko', and an adapter with another port launched as well
C15_Witness ==
  /\ \E p \in Procs :
       /\ Done(p) /\ result[p] = "True" /\ call[p].adapter = "coingecko"
       /\ Existed(p, "coingecko-redis")
       /\ containers["coingecko-redis"].id = call[p].n
  /\ api_keys = [COINGECKO_API_KEY |-> "abc123"]
  /\ containers["coingecko-redis"].env["API_KEY"] = "abc123"

C18_RegistryFailureIsNoTags ==
  \A p \in Procs :
    (call[p].op \in {"DEPLOY", "UPGRADE"} /\ loc[p].resp.kind \notin {"none", "ok"}) =>
      /\ loc[p].listed /\ loc[p].tags = << >>
      /\ result[p] # "Raised"
      /\ Done(p) => result[p] = "False"

Range(xs) == {xs[i] : i \in 1..Len(xs)}

\* C17: the listing get_available_tags returns for a registry answer is in
\* strict descending order, holds only tags of the answer, has min(10, n)
\* elements, and every tag of the answer that it leaves out is smaller than
\* every tag it holds.
C17_ListingOrdered ==
  \A p \in Procs :
    LET raw == loc[p].resp.Tags
        out == loc[p].tags IN
    loc[p].listed =>
      /\ \A i \in 1..(Len(out) - 1) : StrLess(out[i + 1], out[i])
      /\ Range(out) \subseteq Range(raw)
      /\ Len(out) = (IF Len(raw) < TagPreview THEN Len(raw) ELSE TagPreview)
      /\ \A t \in Range(raw) \ Range(out) : \A i \in 1..Len(out) : StrLess(t, out[i])

\* twelve tags, not in descending order: two are left out
C17_Witness ==
  \E p \in Procs :
    /\ Done(p) /\ call[p].op = "LIST_TAGS" /\ loc[p].listed
    /\ loc[p].resp.Tags = PoolSeq
    /\ loc[p].tags = <<"3.9.0", "3.4.0", "3.3.0", "3.2.10", "3.2.1", "3.2.0",
                       "3.11.0", "3.10.0", "3.1.1", "3.1.0">>

\* the records of a Test are the one record r of kind TEST with that outcome,
\* container name and symbols
OneTestRecord(p, status) ==
  /\ Len(Appended(p)) = 1
  /\ Appended(p)[1].operation = "TEST"
  /\ Appended(p)[1].status = status
  /\ Appended(p)[1].adapter = call[p].adapter
  /\ Appended(p)[1].details.from = call[p].params[1]
  /\ Appended(p)[1].details.to = call[p].params[2]

\* C19: a Test whose request could not connect or timed out in the connect
\* returns None, does not raise, and has appended exactly one record,
\* TEST / FAILURE with its container name and its from and to symbols.
C19_UnreachableProbe ==
  \A p \in Procs :
    (Done(p) /\ call[p].op = "TEST" /\ loc[p].probe \in {"unreachable", "timeout"}) =>
      /\ result[p] = None
      /\ OneTestRecord(p, "FAILURE")

\* a name that is no container's, the connect timing out
C19_Witness ==
  \E p \in Procs :
    /\ Done(p) /\ call[p].op = "TEST" /\ loc[p].probe = "timeout"
    /\ call[p].adapter = "adapter.example.org" /\ loc[p].host = call[p].adapter
    /\ Len(journal) = 2

\* C20: a Test whose response body is not JSON, or is JSON without a
\* `result`, returns None and has appended one record, TEST / FAILURE; a
\* Test appends TEST / SUCCESS only if it took a result from the response,
\* which it then returns as it is.
C20_MalformedIsFailure ==
  \A p \in Procs :
    (Done(p) /\ call[p].op = "TEST") =>
      /\ loc[p].probe \in {"not_json", "not_object", "no_result"} =>
           /\ result[p] = None
           /\ OneTestRecord(p, "FAILURE")
      /\ (\E i \in 1..Len(Appended(p)) : Appended(p)[i].status = "SUCCESS") =>
           /\ loc[p].probe = "result"
           /\ result[p] = ResultValue
           /\ Appended(p)[1].details.result = ResultValue

\* C21: the host a Test sends its request to is the container's address on
\* 'eas-net' if a container of the given name exists and is attached to the
\* network (the daemon answering the lookup), and the given name itself in
\* every other case; the request is sent in both cases.
C21_ProbeHost ==
  \A p \in Procs :
    LET name == call[p].adapter
        attached == Exists(name) /\ containers[name].ip # "none" IN
    (call[p].op = "TEST" /\ loc[p].host # None /\ (Exists(name) => trace[p][1].ok)) =>
      /\ loc[p].host = (IF attached THEN containers[name].ip ELSE name)
      /\ Done(p) => Acted(p, {"curl"})

\* the requests the invocation in slot p has sent
Requests(p) == {i \in 1..Len(trace[p]) : trace[p][i].act = "curl"}

\* C22: a Test sends at most one request, and exactly one by the time it
\* ends; a request that failed (no connection, timeout, a response that
\* cannot be parsed) is the last call the Test makes.
C22_OneRequest ==
  \A p \in Procs :
    call[p].op = "TEST" =>
      /\ Cardinality(Requests(p)) <= 1
      /\ Done(p) => Cardinality(Requests(p)) = 1
      /\ loc[p].probe \in {"no_curl", "unreachable", "timeout", "not_json", "not_object"} =>
           /\ Done(p)
           /\ Requests(p) = {Len(trace[p])}

\* a Test of a running adapter container whose answer was not JSON
C22_Witness ==
  \E p \in Procs :
    /\ Done(p) /\ call[p].op = "TEST" /\ loc[p].probe = "not_json"
    /\ loc[p].host = "192.168.1.114"
    /\ Requests(p) = {2}

\* C27: a tag lookup or a Test that has started ends, whatever the remote
\* side does: get_available_tags and test_adapter return.
C27_NoIndefiniteBlock ==
  \A p \in Procs :
    (call[p].op \in {"TEST", "LIST_TAGS"} /\ ~Done(p)) ~> Done(p)

\* C29: after an Initialize that returned True the cache container
\* 'redis-cache' exists and is attached to 'eas-net', with the address
\* 192.168.1.1 or with a dynamic one, whether this Initialize launched it or
\* found it.
C29_CacheAttached ==
  \A p \in Procs :
    (Done(p) /\ call[p].op = "INITIALIZE" /\ result[p] = "True") =>
      /\ Exists(RedisName)
      /\ containers[RedisName].ip \in {RedisIP, "dynamic"}

\* C30: a Deploy or Upgrade of adapter A leaves every container but
\* "A-redis" as it was when the operation started: the containers of the
\* other adapters and the cache container keep their existence, state, image
\* tag and attachment.
C30_OthersUntouched ==
  \A p \in Procs :
    (call[p].op \in {"DEPLOY", "UPGRADE"} /\ Known(call[p].adapter)) =>
      \A n \in ContainerNames \ {ContainerName(call[p].adapter)} :
        containers[n] = pre[p].containers[n]

\* the invocation in slot p is about to create something that is there by
\* now: another invocation created it after this one had looked
LostCreate(p) ==
  \/ pc[p] = "i_netcreate" /\ NetworkName \in networks
  \/ pc[p] = "i_run" /\ Exists(RedisName)

\* C23: of two Initialize running at the same time, the one whose create
\* finds the network (or the cache container) already there goes on as if it
\* had created it: that step does not end it as failed.
C23_LostCreateIsSuccess ==
  [][\A p \in Procs :
       (LostCreate(p) /\ trace'[p] # trace[p]) => pc'[p] # "done"]_vars

\* the invocation in slot p is about to stop or remove a container it listed
\* that is gone by now, or to launch under a name that is taken by now
TargetChanged(p) ==
  \/ pc[p] \in {"d_remove", "u_stop", "u_remove"} /\ ~Exists(Head(loc[p].existing))
  \/ pc[p] = "d_run" /\ Exists(ContainerName(call[p].adapter))

\* C24: a Deploy or Upgrade whose listed container was removed by another
\* invocation, or whose container name was taken by another invocation's
\* launch, does not fail at that step.
C24_TargetChangeTolerated ==
  [][\A p \in Procs :
       (TargetChanged(p) /\ trace'[p] # trace[p]) =>
         /\ ~(pc'[p] = "done" /\ result'[p] = "False")
         /\ ~(pc'[p] = "u_ret" /\ loc'[p].dres = "False")]_vars

\* the invocation in slot p is between its existence check for the container
\* name `key` and its last action on that container
InTransition(p, key) ==
  \/ /\ call[p].op = "INITIALIZE" /\ key = RedisName
     /\ pc[p] \in {"i_run", "i_connect", "i_fallback"}
  \/ /\ call[p].op = "DEPLOY" /\ key = ContainerName(call[p].adapter)
     /\ pc[p] \in {"d_remove", "d_run", "d_connect", "d_fallback"}
  \/ /\ call[p].op = "UPGRADE" /\ key = ContainerName(call[p].adapter)
     /\ pc[p] \in {"u_stop", "u_remove", "d_tags", "d_config", "d_netcheck", "d_list",
                   "d_remove", "d_run", "d_connect", "d_fallback"}

\* C25: no two invocations are in a transition for the same container name
\* at the same time.
C25_OneTransitionPerKey ==
  \A p, q \in Procs :
    p # q => \A key \in ContainerNames : ~(InTransition(p, key) /\ InTransition(q, key))

\* an uninterrupted run of the command of slot 1, every call succeeding,
\* would have succeeded from the state the run of slot 1 started in
WouldSucceed ==
  CASE call[1].op = "INITIALIZE" -> TRUE
    [] call[1].op = "DEPLOY" -> NetworkName \in pre[1].networks
    [] call[1].op = "UPGRADE" ->
         NetworkName \in pre[1].networks /\ Existed(1, ContainerName(call[1].adapter))
    [] OTHER -> FALSE

\* the state an uninterrupted run ends in
Converged ==
  IF call[1].op = "INITIALIZE"
    THEN Exists(RedisName) /\ containers[RedisName].ip \in {RedisIP, "dynamic"}
    ELSE LET name == ContainerName(call[1].adapter) IN
         /\ Exists(name) /\ containers[name].status = "running"
         /\ containers[name].tag = call[1].tag
         /\ containers[name].ip \notin {"none", ""}

\* C26: when a run of Initialize, Deploy or Upgrade that would have succeeded
\* was killed after any of its steps, a complete run of the same command
\* right after it, every call succeeding, returns True and ends in the state
\* the uninterrupted run would have ended in.
C26_RerunConverges ==
  ( /\ result[1] = "Killed" /\ WouldSucceed
    /\ Done(2) /\ result[2] # "Killed" /\ Clean(2)
    /\ call[2].op = call[1].op /\ call[2].n = call[1].n + 1 ) =>
    /\ result[2] = "True"
    /\ Converged

\* the process of slot p has ended
Exited(p) == loc[p].exit >= 0

\* what the operation reported to the front end
ReportedSuccess(p) ==
  IF call[p].op = "TEST" THEN result[p] = ResultValue ELSE result[p] = "True"

\* C28: the process ends with status 0 if the operation it ran reported
\* success and with status 1 otherwise: when the operation returned failure
\* or raised, when no tags were found, when a test was given fewer than two
\* symbols.
C28_ExitCode ==
  \A p \in Procs :
    Exited(p) =>
      /\ loc[p].exit \in {0, 1}
      /\ loc[p].exit = 0 <=> ReportedSuccess(p)
      /\ (call[p].op = "TEST" /\ Len(call[p].params) < 2) => loc[p].exit = 1
      /\ (loc[p].listed /\ loc[p].tags = << >>) => loc[p].exit = 1

\* 'No tags found' for a deploy without --tag after a successful command
C28_Witness ==
  \E p \in Procs :
    /\ Exited(p) /\ loc[p].exit = 1 /\ call[p].op = "DEPLOY"
    /\ loc[p].listed /\ loc[p].tags = << >>
    /\ prev.result = "True"

\* the launch of the invocation in slot p failed
LaunchFailed(p) ==
  \E i \in 1..Len(trace[p]) : trace[p][i].act = "run" /\ Failed(p, i)

\* C31: a Deploy that force-removed the existing container "A-redis" and
\* whose launch then failed made the removal before the launch, has returned
\* False, has appended one DEPLOY / FAILURE record with the adapter and the
\* tag, and has left no container named "A-redis".
C31_NoRollbackNoContainer ==
  \A p \in Procs :
    LET name == ContainerName(call[p].adapter) IN
    ( /\ Done(p) /\ call[p].op = "DEPLOY" /\ Known(call[p].adapter)
      /\ Existed(p, name) /\ Did(p, "remove", name) /\ LaunchFailed(p) ) =>
      /\ \A i, j \in 1..Len(trace[p]) :
           (trace[p][i].act = "remove" /\ trace[p][j].act = "run") => i < j
      /\ result[p] = "False"
      /\ Cardinality(Records(p, "DEPLOY")) = 1
      /\ \A i \in Records(p, "DEPLOY") :
           /\ Appended(p)[i].status = "FAILURE"
           /\ Appended(p)[i].adapter = call[p].adapter
           /\ Appended(p)[i].details.tag = loc[p].tag
      /\ ~Exists(name)

\* C32: a Test of the running container of a deployed adapter sends its
\* request to the port the container was launched with, the adapter's
\* configured port.
C32_ProbePort ==
  \A p \in Procs :
    \A a \in Launched :
      ( /\ call[p].op = "TEST" /\ call[p].adapter = ContainerName(a)
        /\ containers[ContainerName(a)].status = "running" ) =>
        /\ containers[ContainerName(a)].port = adapter_configs[a].port
        /\ \A i \in Requests(p) :
             trace[p][i].target = loc[p].host \o ":" \o adapter_configs[a].port

\* the containers that hold a static address of 'eas-net': the running ones
\* that were attached with one
Holders(ip) ==
  {n \in ContainerNames : Exists(n) /\ containers[n].status = "running"
                            /\ containers[n].ip = ip}

StaticAddresses == {adapter_configs[a].ip : a \in DOMAIN adapter_configs} \cup {RedisIP}

\* C33: once a Deploy whose attachment with the static address succeeded has
\* returned True, the adapter's container is running and attached with the
\* adapter's configured address; and in every state, after any sequence of
\* Initialize, Deploy and Upgrade, no static address is held by two
\* containers.
C33_StaticAddress ==
  /\ \A p \in Procs :
       LET name == ContainerName(call[p].adapter) IN
       ( /\ Done(p) /\ call[p].op = "DEPLOY" /\ result[p] = "True"
         /\ Did(p, "connect_static", name) ) =>
         /\ Exists(name) /\ containers[name].status = "running"
         /\ containers[name].id = call[p].n
         /\ containers[name].ip = adapter_configs[call[p].adapter].ip
  /\ \A ip \in StaticAddresses \ {None} : Cardinality(Holders(ip)) <= 1

\* 'coingecko' deployed with its address 192.168.1.113 while the container
\* of 'coin', which has the same address, exists and is stopped
C33_Witness ==
  \E p \in Procs :
    /\ Done(p) /\ call[p].op = "DEPLOY" /\ call[p].adapter = "coingecko"
    /\ result[p] = "True" /\ Did(p, "connect_static", "coingecko-redis")
    /\ Exists("coin-redis") /\ containers["coin-redis"].ip = "192.168.1.113"
    /\ containers[RedisName].ip = RedisIP
====
